---- MODULE Spec2Model ----
(***************************************************************************)
(* A model of delta (src/main.rs): a streaming filter that reads a diff    *)
(* line by line, classifies each line by prefix, and writes one line per   *)
(* input line, either the raw line or a composited (highlighted, tinted,   *)
(* padded) line.                                                           *)
(*                                                                         *)
(* Text is a string; the escape character U+001B is written "^", which    *)
(* occurs in no other role.  All text of the model is ASCII, so byte       *)
(* length and character count coincide.                                    *)
(***************************************************************************)
EXTENDS Integers, Sequences, FiniteSets, TLC

VARIABLES
    pc,         \* "loop": in delta's loop; "exited": the process has exited;
                \* "paint", "painted": before and after a call of paint_ranges
    opt,        \* the parsed command line: [width |-> Option<u16>]
    state,      \* delta's State
    syntax,     \* delta's Option<&SyntaxReference>
    output,     \* delta's rendering buffer
    did_emit_line,
    background_color,   \* the tint of the line composited last
    ranges,     \* the (style, text) pairs of the line composited last
    input,      \* the raw lines read from stdin so far, in order
    history,    \* history[k]: delta's state, syntax and line (the stripped
                \* text) when it had read input[k]
    stdout,     \* the lines written to stdout so far, in order
    stderr,     \* the messages written to stderr so far
    result,     \* delta's return value once it returned
    exit_code   \* the process's exit code once it exited: Some(code)

vars == <<pc, opt, state, syntax, output, did_emit_line, background_color,
          ranges, input, history, stdout, stderr, result, exit_code>>

(***************************************************************************)
(* Bounds of the model.                                                    *)
(***************************************************************************)
\* the number of items (lines or read failures) the input stream delivers
MaxLines == 4
\* the highlighter cuts a line into at most MaxSpans spans
MaxSpans == 2

(***************************************************************************)
(* Text helpers.                                                           *)
(***************************************************************************)
ESC == "^"

\* the i-th character of s
CharAt(s, i) == SubSeq(s, i, i)

\* Option<T>: None, or Some(x) holding x
None == << >>

Some(x) == <<x>>

Unwrap(o) == o[1]

RECURSIVE repeat(_, _)
\* " ".repeat(n)
repeat(c, n) ==
    IF n <= 0 THEN ""
    ELSE IF n = 1 THEN c
    ELSE repeat(c, n \div 2) \o repeat(c, n - (n \div 2))

\* line[1..]
Tail1(s) == SubSeq(s, 2, Len(s))

DigitChars == "0123456789"

RECURSIVE Decimal(_)
\* the "{}" formatting of a u8
Decimal(n) ==
    IF n < 10 THEN CharAt(DigitChars, n + 1)
    ELSE Decimal(n \div 10) \o CharAt(DigitChars, (n % 10) + 1)

\* str::starts_with
starts_with(s, prefix) ==
    /\ Len(s) >= Len(prefix)
    /\ SubSeq(s, 1, Len(prefix)) = prefix

\* line.chars().next()
first_char(s) == IF Len(s) = 0 THEN None ELSE Some(CharAt(s, 1))

(***************************************************************************)
(* console::strip_ansi_codes, for the escape sequences of the form         *)
(* ESC [ parameters final, parameters being digits and ';' and final a     *)
(* letter.  An ESC that starts no such sequence is kept.                   *)
(***************************************************************************)
ParamChars == {CharAt(DigitChars, i) : i \in 1..10} \cup {";"}

FinalChars == {"m", "K", "H", "J"}

RECURSIVE SkipParams(_, _)
\* the first index >= i of s that holds no parameter character
SkipParams(s, i) ==
    IF i <= Len(s) /\ CharAt(s, i) \in ParamChars THEN SkipParams(s, i + 1) ELSE i

\* the index of the final character of the escape sequence starting at i
\* (an ESC), or 0 when none starts there
EscapeEnd(s, i) ==
    LET j == IF i + 1 <= Len(s) /\ CharAt(s, i + 1) = "[" THEN i + 2 ELSE i + 1
        k == SkipParams(s, j)
    IN  IF k <= Len(s) /\ CharAt(s, k) \in FinalChars THEN k ELSE 0

\* the indexes of s that start an escape sequence
EscapeStarts(s) ==
    {e \in 1..Len(s) : CharAt(s, e) = ESC /\ EscapeEnd(s, e) # 0}

RECURSIVE KeepOutside(_, _, _, _)
\* the characters of s[lo..hi] that lie in no escape sequence, in order
KeepOutside(s, starts, lo, hi) ==
    IF lo > hi THEN ""
    ELSE IF lo = hi
         THEN IF \E e \in starts : e <= lo /\ lo <= EscapeEnd(s, e)
              THEN ""
              ELSE CharAt(s, lo)
         ELSE LET mid == (lo + hi) \div 2
              IN  KeepOutside(s, starts, lo, mid)
                      \o KeepOutside(s, starts, mid + 1, hi)

strip_ansi_codes(s) ==
    LET starts == EscapeStarts(s)
    IN  IF starts = {} THEN s ELSE KeepOutside(s, starts, 1, Len(s))

(***************************************************************************)
(* Colors.                                                                 *)
(***************************************************************************)
GREEN == [r |-> 1, g |-> 24, b |-> 0]

RED == [r |-> 36, g |-> 0, b |-> 1]

\* foreground colors of the theme (base16-mocha.dark supplies them)
ThemeColors == <<[r |-> 208, g |-> 200, b |-> 198], [r |-> 138, g |-> 181, b |-> 190]>>

RESET == ESC \o "[0m"

\* "\x1b[48;2;{};{};{}m"
BgEscape(c) ==
    ESC \o "[48;2;" \o Decimal(c.r) \o ";" \o Decimal(c.g) \o ";"
        \o Decimal(c.b) \o "m"

\* "\x1b[38;2;{};{};{}m"
FgEscape(c) ==
    ESC \o "[38;2;" \o Decimal(c.r) \o ";" \o Decimal(c.g) \o ";"
        \o Decimal(c.b) \o "m"

(***************************************************************************)
(* paint: write text to the buffer with color escape codes applied.        *)
(* Returns the buffer after the call.                                      *)
(***************************************************************************)
paint_resetting(text, foreground_color, bg, reset_color, buf) ==
    LET b1 == IF bg # None
              THEN buf \o BgEscape(Unwrap(bg))
              ELSE buf
    IN  IF foreground_color # None
        THEN b1 \o FgEscape(Unwrap(foreground_color)) \o text \o RESET
        ELSE b1 \o text

paint_foreground_first(text, foreground_color, bg, reset_color, buf) ==
    LET b1 == IF foreground_color # None
              THEN buf \o FgEscape(Unwrap(foreground_color))
              ELSE buf
    IN  IF bg # None
        THEN b1 \o BgEscape(Unwrap(bg)) \o text
        ELSE b1 \o text

paint(text, foreground_color, bg, reset_color, buf) ==
    LET b1 == IF bg # None
              THEN buf \o BgEscape(Unwrap(bg))
                       \o (IF reset_color THEN RESET ELSE "")
              ELSE buf
    IN  IF foreground_color # None
        THEN b1 \o FgEscape(Unwrap(foreground_color)) \o text
                \o (IF reset_color THEN RESET ELSE "")
        ELSE b1 \o text

RECURSIVE PaintEach(_, _, _)
\* the for loop of paint_ranges over the (style, text) pairs
PaintEach(rs, bg, buf) ==
    IF Len(rs) = 0 THEN buf
    ELSE PaintEach(Tail(rs), bg,
                   paint(rs[1].text, Some(rs[1].foreground),
                         bg, FALSE, buf))

paint_ranges(foreground_style_ranges, bg, buf) ==
    PaintEach(foreground_style_ranges, bg, buf) \o RESET

(***************************************************************************)
(* The external collaborators of delta's loop.                             *)
(***************************************************************************)
RECURSIVE LastIndexOf(_, _, _)
\* the greatest index <= i of s that holds c, or 0
LastIndexOf(s, c, i) ==
    IF i = 0 THEN 0
    ELSE IF CharAt(s, i) = c THEN i ELSE LastIndexOf(s, c, i - 1)

\* parse::get_file_extension_from_diff_line: the last dotted suffix of the
\* last path token of the line, or None
get_file_extension_from_diff_line(line) ==
    LET sp    == LastIndexOf(line, " ", Len(line))
        token == SubSeq(line, sp + 1, Len(line))
        dot   == LastIndexOf(token, ".", Len(token))
    IN  IF dot = 0 THEN None ELSE Some(SubSeq(token, dot + 1, Len(token)))

\* the extensions the syntax set has a grammar for
KnownExtensions == {"py"}

\* SyntaxSet::find_syntax_by_extension
find_syntax_by_extension(extension) ==
    IF extension \in KnownExtensions THEN Some(extension) ELSE None

\* the foreground color the theme gives the i-th token of a line
ThemeColor(i) == IF i % 2 = 1 THEN ThemeColors[1] ELSE ThemeColors[2]

\* line cut into n spans: one column each for the first n - 1, the rest last
Spans(line, n) ==
    [i \in 1..n |->
        [foreground |-> ThemeColor(i),
         text |-> IF i < n THEN SubSeq(line, i, i) ELSE SubSeq(line, n, Len(line))]]

\* HighlightLines::highlight: some cut of the line into (style, text) pairs
\* that cover it in order, each with a foreground color of the theme
highlight(line) ==
    {Spans(line, n) : n \in {m \in 1..MaxSpans : m <= Len(line)}}

(***************************************************************************)
(* The body of delta's loop, lines 85-125, as functions of the raw line    *)
(* read and of the locals before it.                                       *)
(***************************************************************************)
DIFF_PREFIX == "diff --"

COMMIT_PREFIX == "commit"

HUNK_PREFIX == "@@"

PAD_WIDTH == 100

next_state_hunk_after_meta_only(st, line) ==
    IF starts_with(line, DIFF_PREFIX) THEN "DiffMeta"
    ELSE IF starts_with(line, COMMIT_PREFIX) THEN "Commit"
    ELSE IF starts_with(line, HUNK_PREFIX) /\ st = "DiffMeta" THEN "DiffHunk"
    ELSE st

next_state_resetting(st, line) ==
    IF starts_with(line, DIFF_PREFIX) THEN "DiffMeta"
    ELSE IF starts_with(line, COMMIT_PREFIX) THEN "Commit"
    ELSE IF starts_with(line, HUNK_PREFIX) THEN "DiffHunk"
    ELSE IF st = "DiffHunk" THEN st
    ELSE "Unknown"

\* the state after the if / else if chain
next_state(st, line) ==
    IF starts_with(line, DIFF_PREFIX) THEN "DiffMeta"
    ELSE IF starts_with(line, COMMIT_PREFIX) THEN "Commit"
    ELSE IF starts_with(line, HUNK_PREFIX) THEN "DiffHunk"
    ELSE st

\* the syntax after the if / else if chain
next_syntax_cleared_by_commit(syn, line) ==
    IF starts_with(line, DIFF_PREFIX)
    THEN LET extension == get_file_extension_from_diff_line(line)
         IN  IF extension # None
             THEN find_syntax_by_extension(Unwrap(extension))
             ELSE None
    ELSE IF starts_with(line, COMMIT_PREFIX) THEN None
    ELSE syn

next_syntax_keeping_on_miss(syn, line) ==
    IF starts_with(line, DIFF_PREFIX)
    THEN LET extension == get_file_extension_from_diff_line(line)
         IN  IF extension # None
                /\ find_syntax_by_extension(Unwrap(extension)) # None
             THEN find_syntax_by_extension(Unwrap(extension))
             ELSE syn
    ELSE syn

next_syntax(syn, line) ==
    IF starts_with(line, DIFF_PREFIX)
    THEN LET extension == get_file_extension_from_diff_line(line)
         IN  IF extension # None
             THEN find_syntax_by_extension(Unwrap(extension))
             ELSE None
    ELSE syn

composites_ignoring_syntax(st, syn, line) ==
    /\ ~starts_with(line, DIFF_PREFIX)
    /\ ~starts_with(line, COMMIT_PREFIX)
    /\ ~starts_with(line, HUNK_PREFIX)
    /\ st = "DiffHunk"

composites_before_prefixes(st, syn, line) ==
    /\ st = "DiffHunk"
    /\ syn # None

\* whether the chain reaches the Some(syntax) arm, which composites the line
composites(st, syn, line) ==
    /\ ~starts_with(line, DIFF_PREFIX)
    /\ ~starts_with(line, COMMIT_PREFIX)
    /\ ~starts_with(line, HUNK_PREFIX)
    /\ st = "DiffHunk"
    /\ syn # None

background_color_of_added_only(fc) ==
    IF fc = Some("+") THEN Some(GREEN)
    ELSE None

background_color_of(fc) ==
    IF fc = Some("+") THEN Some(GREEN)
    ELSE IF fc = Some("-") THEN Some(RED)
    ELSE None

has_marker(fc) == fc = Some("+") \/ fc = Some("-")

\* line after `line = line[1..]`, taken when the line has a marker
unmarked(line) == IF has_marker(first_char(line)) THEN Tail1(line) ELSE line

\* the buffer after `output.push_str(" ")`, taken when the line has a marker
marker_space(line, buf) ==
    IF has_marker(first_char(line)) THEN buf \o " " ELSE buf

\* line after the padding of lines 111-113
padded(width, line) ==
    IF Len(line) < PAD_WIDTH
    THEN line \o repeat(" ", PAD_WIDTH - Len(line))
    ELSE line

\* the text handed to the highlighter
highlighted_text(width, line) == padded(width, unmarked(line))

\* the buffer when it is written, lines 101-116
composite(line, rs, buf) ==
    paint_ranges(rs, background_color_of(first_char(line)),
                 marker_space(line, buf))

raw_output_stripped(raw_line, line) == line

\* what line 124 writes
raw_output(raw_line, line) == raw_line

\* what one iteration writes for raw_line, read with the locals st and syn,
\* when the highlighter answers rs
emitted(st, syn, width, raw_line, rs) ==
    LET line == strip_ansi_codes(raw_line)
    IN  IF composites(st, syn, line)
        THEN composite(line, rs, "")
        ELSE raw_output(raw_line, line)

RECURSIVE delta_lines(_, _, _, _)
\* what delta writes for the stream of lines, started with the locals st and
\* syn, the highlighter answering with its first cut
delta_lines(lines, st, syn, width) ==
    IF Len(lines) = 0 THEN << >>
    ELSE LET line == strip_ansi_codes(lines[1])
             rs   == Spans(highlighted_text(width, line), 1)
         IN  <<emitted(st, syn, width, lines[1], rs)>>
                 \o delta_lines(Tail(lines), next_state(st, line),
                                next_syntax(syn, line), width)

(***************************************************************************)
(* The input lines the model draws from.                                   *)
(***************************************************************************)
DiffPy == DIFF_PREFIX \o "git a/f.py b/f.py"

\* a colored diff header of a file type without a grammar
DiffZz == ESC \o "[1m" \o DIFF_PREFIX \o "git a/f.zz b/f.zz" \o ESC \o "[m"

DiffNoExt == DIFF_PREFIX \o "git a/f b/f"

CommitLine == COMMIT_PREFIX \o " 1"

HunkHeader == HUNK_PREFIX \o " -1 +1 @@"

Added == "+x"

\* a colored removed line
Removed == ESC \o "[31m-x" \o ESC \o "[m"

Context == " x"

\* an added line longer than the padding width
Long == "+" \o repeat("y", PAD_WIDTH + 1)

Empty == ""

Lines ==
    {DiffPy, DiffZz, DiffNoExt, CommitLine, HunkHeader, Added, Removed,
     Context, Long, Empty}

unstripped == [raw_line \in Lines |-> raw_line]

\* strip_ansi_codes(&raw_line) of line 85, for each input line of the model
stripped == [raw_line \in Lines |-> strip_ansi_codes(raw_line)]

Widths == {None, Some(80)}

ReadErrorKinds == {"InvalidData", "Other"}

WriteErrorKinds == {"BrokenPipe", "Other"}

(***************************************************************************)
(* The state machine.                                                      *)
(***************************************************************************)
truncate_keeping(buf, new_len) == buf

\* String::truncate
truncate(buf, new_len) == SubSeq(buf, 1, new_len)

writeln_skipping_empty(out, text) ==
    IF text = "" THEN out ELSE Append(out, text)

\* a writeln! to stdout that succeeds
writeln(out, text) == Append(out, text)

main_stderr_reporting_every_error(res, err) ==
    IF res = "Ok" THEN err ELSE Append(err, res)

\* stderr after main's match on what delta returned: nothing is printed for
\* Ok and for a BrokenPipe error, eprintln! prints any other error
main_stderr(res, err) ==
    IF res \in {"Ok", "BrokenPipe"} THEN err ELSE Append(err, res)

\* the exit code after main's match: process::exit(0) on a BrokenPipe error,
\* otherwise main returns, which exits with 0
main_exit_code(res) ==
    IF res = "BrokenPipe" THEN Some(0) ELSE Some(0)

Return_retrying(res) ==
    /\ pc' = IF res = "Ok" THEN "exited" ELSE "loop"
    /\ result' = res
    /\ stderr' = main_stderr(res, stderr)
    /\ exit_code' = main_exit_code(res)

\* delta returns res to main, which matches on it, and the process exits
Return(res) ==
    /\ pc' = "exited"
    /\ result' = res
    /\ stderr' = main_stderr(res, stderr)
    /\ exit_code' = main_exit_code(res)

\* the locals of delta when it has read a line and stripped it into line
Locals(line) == [state |-> state, syntax |-> syntax, line |-> line]

Init ==
    /\ pc = "loop"
    /\ opt \in [width : Widths]
    /\ state = "Unknown"
    /\ syntax = None
    /\ output = ""
    /\ did_emit_line = FALSE
    /\ background_color = None
    /\ ranges = << >>
    /\ input = << >>
    /\ history = << >>
    /\ stdout = << >>
    /\ stderr = << >>
    /\ result = "Running"
    /\ exit_code = None

\* `_line?` fails: delta returns the error to main
ReadFail(kind) ==
    /\ pc = "loop"
    /\ Len(input) < MaxLines
    /\ Return(kind)
    /\ UNCHANGED <<opt, state, syntax, output, did_emit_line, background_color,
                   ranges, input, history, stdout>>

\* the iterator ends: delta returns Ok(()) to main
EndOfInput ==
    /\ pc = "loop"
    /\ Return("Ok")
    /\ UNCHANGED <<opt, state, syntax, output, did_emit_line, background_color,
                   ranges, input, history, stdout>>

\* an iteration that does not composite and writes the raw line
EmitRaw(raw_line) ==
    LET line == stripped[raw_line]
    IN  /\ pc = "loop"
        /\ Len(input) < MaxLines
        /\ ~composites(state, syntax, line)
        /\ input' = Append(input, raw_line)
        /\ history' = Append(history, Locals(line))
        /\ state' = next_state(state, line)
        /\ syntax' = next_syntax(syntax, line)
        /\ did_emit_line' = FALSE
        /\ stdout' = writeln(stdout, raw_output(raw_line, line))
        /\ UNCHANGED <<pc, opt, output, background_color, ranges, stderr,
                       result, exit_code>>

\* an iteration that composites the line, writes the buffer and empties it
EmitComposited(raw_line) ==
    LET line == stripped[raw_line]
    IN  /\ pc = "loop"
        /\ Len(input) < MaxLines
        /\ composites(state, syntax, line)
        /\ input' = Append(input, raw_line)
        /\ history' = Append(history, Locals(line))
        /\ background_color' = background_color_of(first_char(line))
        /\ ranges' \in highlight(highlighted_text(opt.width, line))
        /\ stdout' = writeln(stdout, composite(line, ranges', output))
        /\ output' = truncate(composite(line, ranges', output), 0)
        /\ did_emit_line' = TRUE
        /\ UNCHANGED <<pc, opt, state, syntax, stderr, result, exit_code>>

\* an iteration whose writeln! fails: delta returns the error to main
WriteFail(raw_line, kind) ==
    LET line == stripped[raw_line]
    IN  /\ pc = "loop"
        /\ Len(input) < MaxLines
        /\ input' = Append(input, raw_line)
        /\ history' = Append(history, Locals(line))
        /\ state' = next_state(state, line)
        /\ syntax' = next_syntax(syntax, line)
        /\ IF composites(state, syntax, line)
           THEN /\ background_color' = background_color_of(first_char(line))
                /\ ranges' \in highlight(highlighted_text(opt.width, line))
                /\ output' = composite(line, ranges', output)
           ELSE UNCHANGED <<background_color, ranges, output>>
        /\ did_emit_line' = FALSE
        /\ Return(kind)
        /\ UNCHANGED <<opt, stdout>>

Next ==
    \/ \E kind \in ReadErrorKinds : ReadFail(kind)
    \/ EndOfInput
    \/ \E raw_line \in Lines : EmitRaw(raw_line)
    \/ \E raw_line \in Lines : EmitComposited(raw_line)
    \/ \E raw_line \in Lines, kind \in WriteErrorKinds : WriteFail(raw_line, kind)

Spec == Init /\ [][Next]_vars

(***************************************************************************)
(* paint_ranges on its own: a call with any span list, tint and buffer.    *)
(***************************************************************************)
\* escape-free texts of a span
SpanTexts == {"", "a", " b"}

StyledSpans == [foreground : {ThemeColors[1], ThemeColors[2]}, text : SpanTexts]

\* the span lists of at most MaxSpans spans
SpanLists == UNION {[1..n -> StyledSpans] : n \in 0..MaxSpans}

PaintInit ==
    /\ pc = "paint"
    /\ opt = [width |-> None]
    /\ state = "DiffHunk"
    /\ syntax = None
    /\ output \in {"", " "}
    /\ did_emit_line = FALSE
    /\ background_color \in {None, Some(GREEN), Some(RED)}
    /\ ranges \in SpanLists
    /\ input = << >>
    /\ history = << >>
    /\ stdout = << >>
    /\ stderr = << >>
    /\ result = "Running"
    /\ exit_code = None

\* paint_ranges(&ranges[..], background_color, &mut output)
PaintCall ==
    /\ pc = "paint"
    /\ pc' = "painted"
    /\ output' = paint_ranges(ranges, background_color, output)
    /\ UNCHANGED <<opt, state, syntax, did_emit_line, background_color, ranges,
                   input, history, stdout, stderr, result, exit_code>>

PaintNext == PaintCall

PaintSpec == PaintInit /\ [][PaintNext]_vars

(***************************************************************************)
(* Properties.                                                             *)
(***************************************************************************)
\* the ANSI-stripped text of the k-th input line
Stripped(k) == history[k].line

\* the k-th input line starts with none of "diff --", "commit", "@@"
NoPrefix(k) ==
    /\ ~starts_with(Stripped(k), DIFF_PREFIX)
    /\ ~starts_with(Stripped(k), COMMIT_PREFIX)
    /\ ~starts_with(Stripped(k), HUNK_PREFIX)

\* no read or write has failed
NoFailure == result \in {"Running", "Ok"}

\* the k-th output line is the raw k-th input line, or the k-th input line
\* composited with some answer of the highlighter
DerivedFromInput(k) ==
    \/ stdout[k] = input[k]
    \/ \E rs \in highlight(highlighted_text(opt.width, Stripped(k))) :
           stdout[k] = composite(Stripped(k), rs, "")

\* C1: without a read or write failure, the lines written are as many as the
\* lines read, at every point and at the end of input, and the k-th line
\* written is derived from the k-th line read.
C1_OneOutputLinePerInputLine ==
    NoFailure =>
        /\ Len(stdout) = Len(input)
        /\ \A k \in 1..Len(stdout) : DerivedFromInput(k)

\* a run that ended at end-of-input after raw and composited lines
C1_Witness ==
    /\ pc = "exited"
    /\ result = "Ok"
    /\ \E j, k \in 1..Len(stdout) :
           /\ stdout[j] = input[j]
           /\ stdout[k] # input[k]
           /\ input[j] = Empty

\* C2 (as claimed): a line with none of the prefixes, read outside DiffHunk,
\* is written as its ANSI-stripped text.
C2_PassThroughIsStripped ==
    \A k \in 1..Len(stdout) :
        (NoPrefix(k) /\ history[k].state # "DiffHunk")
            => stdout[k] = Stripped(k)

\* C2 (amended): a line with none of the prefixes, read outside DiffHunk, is
\* written byte for byte as the raw input line, escape sequences included.
C2_PassThroughIsRaw ==
    \A k \in 1..Len(stdout) :
        (NoPrefix(k) /\ history[k].state # "DiffHunk")
            => stdout[k] = input[k]

\* a colored line passed through outside DiffHunk
C2_Witness ==
    \E k \in 1..Len(stdout) :
        /\ NoPrefix(k)
        /\ history[k].state # "DiffHunk"
        /\ input[k] # Stripped(k)

\* no grammar was resolved at any point of the run
NoGrammarEver ==
    /\ syntax = None
    /\ \A k \in 1..Len(history) : history[k].syntax = None

\* C3: when no grammar is ever resolved, every line written equals the line
\* read, hunk-content lines included, and filtering the whole output of a run
\* again gives the same lines.
C3_IdentityWithoutGrammar ==
    (NoGrammarEver /\ NoFailure) =>
        /\ stdout = input
        /\ result = "Ok" =>
               delta_lines(stdout, "Unknown", None, opt.width) = stdout

\* a run without grammar that wrote a colored header and a hunk-content line
C3_Witness ==
    /\ NoGrammarEver
    /\ NoFailure
    /\ \E j, k \in 1..Len(stdout) :
           /\ input[j] = DiffZz
           /\ history[k].state = "DiffHunk"
           /\ NoPrefix(k)
           /\ has_marker(first_char(Stripped(k)))

\* C4: a hunk-content line read in DiffHunk while the grammar is absent is
\* written as the raw line: marker kept, no padding, no escape code added.
C4_NoGrammarNoCompositing ==
    \A k \in 1..Len(stdout) :
        (history[k].state = "DiffHunk" /\ history[k].syntax = None /\ NoPrefix(k))
            => stdout[k] = input[k]

\* a '+' line written in DiffHunk after the header of a file type that has
\* no grammar
C4_Witness ==
    \E j, k \in 1..Len(stdout) :
        /\ j < k
        /\ input[j] = DiffZz
        /\ history[k].state = "DiffHunk"
        /\ history[k].syntax = None
        /\ input[k] = Added

\* the k-th input line was composited: read in DiffHunk with a grammar
\* resolved, and starting with none of the prefixes
Composited(k) ==
    /\ history[k].state = "DiffHunk"
    /\ history[k].syntax # None
    /\ NoPrefix(k)

\* the k-th input line starts with the marker '+' or '-'
Marked(k) == has_marker(first_char(Stripped(k)))

\* the tint of a line with a marker
TintOf(k) == IF first_char(Stripped(k)) = Some("+") THEN GREEN ELSE RED

\* C5 (as claimed): a composited '+' ('-') line starts with the background
\* escape of the added (removed) tint, so that every visible character of it,
\* the space put for the marker included, follows a background escape.
C5_TintFromFirstColumn ==
    \A k \in 1..Len(stdout) :
        (Composited(k) /\ Marked(k))
            => starts_with(stdout[k], BgEscape(TintOf(k)))

\* the number of reset sequences ESC[0m in s
CountResets(s) ==
    Cardinality({i \in 1..(Len(s) - 3) : SubSeq(s, i, i + 3) = RESET})

\* C6: a composited line holds the reset sequence ESC[0m once, and as its
\* last thing, whatever the tint and the spans: also with no span at all and
\* with spans of empty text.
C6_OneTrailingReset ==
    pc = "painted" =>
        /\ CountResets(output) = 1
        /\ Len(output) >= 4
        /\ SubSeq(output, Len(output) - 3, Len(output)) = RESET

\* a tinted line painted from an empty span list
C6_Witness ==
    /\ pc = "painted"
    /\ ranges = << >>
    /\ background_color = Some(GREEN)
    /\ output = RESET

\* the width the user configured: that of -w/--width, or 100
ConfiguredWidth ==
    IF opt.width = None THEN PAD_WIDTH ELSE Unwrap(opt.width)

Max(a, b) == IF a >= b THEN a ELSE b

\* the visible (non-escape) characters of the k-th output line
Visible(k) == strip_ansi_codes(stdout[k])

\* C7 (as claimed, at the default width): without a width option, a
\* composited line has max(stripped length of the input line, 100) visible
\* characters.
C7_VisibleWidth ==
    opt.width = None =>
        \A k \in 1..Len(stdout) :
            Composited(k)
                => Len(Visible(k)) = Max(Len(Stripped(k)), ConfiguredWidth)

\* the length the k-th line was padded to: its visible characters without
\* the space put for the marker
PaddedLength(k) == Len(Visible(k)) - (IF Marked(k) THEN 1 ELSE 0)

\* C8 (as claimed): with -w/--width N, a composited line shorter than N is
\* padded with spaces to N.
C8_PadsToConfiguredWidth ==
    opt.width # None =>
        \A k \in 1..Len(stdout) :
            (Composited(k) /\ Len(unmarked(Stripped(k))) < Unwrap(opt.width))
                => PaddedLength(k) = Unwrap(opt.width)

\* C9: after a write failed with a broken pipe the process has exited with
\* code 0, nothing is on stderr, and the line whose write failed is the one
\* line read that was not written.
C9_BrokenPipeExitsSilently ==
    result = "BrokenPipe" =>
        /\ pc = "exited"
        /\ exit_code = Some(0)
        /\ stderr = << >>
        /\ Len(stdout) = Len(input) - 1

\* a broken pipe on the write of a composited line, after lines were written
C9_Witness ==
    /\ result = "BrokenPipe"
    /\ pc = "exited"
    /\ Len(stdout) >= 2
    /\ composites(history[Len(input)].state, history[Len(input)].syntax,
                  Stripped(Len(input)))

\* C10 (as claimed): an I/O error that is no broken pipe ends the run with a
\* nonzero exit code and its description on stderr.
C10_OtherErrorsExitNonzero ==
    (pc = "exited" /\ result \notin {"Ok", "BrokenPipe"}) =>
        /\ stderr = <<result>>
        /\ exit_code # Some(0)

\* delta's state once it has processed the k-th input line
StateAfter(k) == IF k < Len(history) THEN history[k + 1].state ELSE state

\* how many of the three prefixes the text starts with
PrefixMatches(line) ==
    (IF starts_with(line, DIFF_PREFIX) THEN 1 ELSE 0)
    + (IF starts_with(line, COMMIT_PREFIX) THEN 1 ELSE 0)
    + (IF starts_with(line, HUNK_PREFIX) THEN 1 ELSE 0)

\* C11: the state is Unknown at the start; after a line starting with
\* "diff --" it is DiffMeta, after one starting with "commit" it is Commit,
\* after one starting with "@@" it is DiffHunk, whatever it was before; the
\* prefixes differ in their first character, so a line matches at most one.
C11_StateFollowsPrefix ==
    /\ (Len(history) = 0 /\ pc = "loop") => state = "Unknown"
    /\ Len(history) > 0 => history[1].state = "Unknown"
    /\ Cardinality({CharAt(DIFF_PREFIX, 1), CharAt(COMMIT_PREFIX, 1),
                    CharAt(HUNK_PREFIX, 1)}) = 3
    /\ \A k \in 1..Len(history) :
           /\ PrefixMatches(Stripped(k)) <= 1
           /\ starts_with(Stripped(k), DIFF_PREFIX) => StateAfter(k) = "DiffMeta"
           /\ starts_with(Stripped(k), COMMIT_PREFIX) => StateAfter(k) = "Commit"
           /\ starts_with(Stripped(k), HUNK_PREFIX) => StateAfter(k) = "DiffHunk"

\* a hunk header read in Unknown, a commit line read in DiffHunk and a diff
\* header read in Commit
C11_Witness ==
    \E i, j, k \in 1..Len(history) :
        /\ history[i].state = "Unknown"
        /\ starts_with(Stripped(i), HUNK_PREFIX)
        /\ history[j].state = "DiffHunk"
        /\ starts_with(Stripped(j), COMMIT_PREFIX)
        /\ history[k].state = "Commit"
        /\ starts_with(Stripped(k), DIFF_PREFIX)
        /\ state = "DiffMeta"

\* C12: a line that starts with none of the prefixes leaves the state as it
\* was, in every state and whether or not the line is composited.
C12_OtherLinesKeepState ==
    \A k \in 1..Len(history) :
        NoPrefix(k) => StateAfter(k) = history[k].state

\* two hunk-content lines in a row, both composited, with the state still
\* DiffHunk after them
C12_Witness ==
    \E k \in 1..Len(history) :
        /\ k + 1 = Len(history)
        /\ NoPrefix(k)
        /\ NoPrefix(k + 1)
        /\ history[k].state = "DiffHunk"
        /\ history[k].syntax # None
        /\ history[k + 1].state = "DiffHunk"
        /\ state = "DiffHunk"
        /\ Len(stdout) = Len(history)

\* the text ends with the reset sequence, as every composited line does
EndsWithReset(s) ==
    /\ Len(s) >= Len(RESET)
    /\ SubSeq(s, Len(s) - Len(RESET) + 1, Len(s)) = RESET

\* C13: a line is written composited exactly when the state before it is
\* DiffHunk, it starts with none of the prefixes and a grammar is resolved;
\* every other line, the "diff --", "commit" and "@@" lines read in DiffHunk
\* with a grammar included, is written raw.
C13_CompositedIffHunkContentWithGrammar ==
    \A k \in 1..Len(stdout) :
        IF Composited(k)
        THEN EndsWithReset(stdout[k]) /\ stdout[k] # input[k]
        ELSE stdout[k] = input[k] /\ ~EndsWithReset(stdout[k])

\* a composited line followed by a header line written raw although the
\* state is DiffHunk and a grammar is resolved
C13_Witness ==
    \E j, k \in 1..Len(stdout) :
        /\ Composited(j)
        /\ j < k
        /\ history[k].state = "DiffHunk"
        /\ history[k].syntax # None
        /\ ~NoPrefix(k)
        /\ stdout[k] = input[k]

RECURSIVE ConcatTexts(_)
\* the span texts of the highlighter's result, joined
ConcatTexts(rs) ==
    IF rs = << >> THEN ""
    ELSE IF Len(rs) = 1 THEN rs[1].text
    ELSE IF Len(rs) = 2 THEN rs[1].text \o rs[2].text
    ELSE rs[1].text \o rs[2].text \o ConcatTexts(SubSeq(rs, 3, Len(rs)))

\* the text t occurs in the text s
Contains(s, t) ==
    \E i \in 1..(Len(s) - Len(t) + 1) : SubSeq(s, i, i + Len(t) - 1) = t

\* the text s has the text t at position i
HasAt(s, i, t) == SubSeq(s, i, i + Len(t) - 1) = t

\* the start of every background escape
BG_INTRO == ESC \o "[48;2;"

\* C14: on a composited line '+' gives the added tint and '-' the removed
\* tint, and in both cases one leading character is dropped and one space is
\* written in its place; with any other first character, or none, there is
\* no tint and nothing is dropped or written in front.  Stated of the line
\* just composited: its tint, the text given to the highlighter and the start
\* of what was written.
C14_TintAndMarkerFromFirstChar ==
    did_emit_line =>
        LET k == Len(stdout)
            fc == first_char(Stripped(k))
            rest == SubSeq(Stripped(k), 2, Len(Stripped(k)))
        IN  /\ fc = Some("+") =>
                   /\ background_color = Some(GREEN)
                   /\ ConcatTexts(ranges) = padded(opt.width, rest)
                   /\ HasAt(stdout[k], 1, " " \o BgEscape(GREEN))
            /\ fc = Some("-") =>
                   /\ background_color = Some(RED)
                   /\ ConcatTexts(ranges) = padded(opt.width, rest)
                   /\ HasAt(stdout[k], 1, " " \o BgEscape(RED))
            /\ fc \notin {Some("+"), Some("-")} =>
                   /\ background_color = None
                   /\ ConcatTexts(ranges) = padded(opt.width, Stripped(k))
                   /\ HasAt(stdout[k], 1, FgEscape(ranges[1].foreground))

\* a composited '-' line and a composited empty line
C14_Witness ==
    \E j \in 1..Len(stdout) :
        /\ Composited(j)
        /\ first_char(Stripped(j)) = Some("-")
        /\ did_emit_line
        /\ first_char(Stripped(Len(stdout))) = None

\* the grammar once delta has processed the k-th input line
SyntaxAfter(k) == IF k < Len(history) THEN history[k + 1].syntax ELSE syntax

IsDiffLine(k) == starts_with(Stripped(k), DIFF_PREFIX)

\* C15: only a "diff --" line changes the grammar; commit lines, hunk
\* headers, hunk content and plain lines leave it as it was, so it lasts
\* until the next "diff --" line.
C15_GrammarChangesOnlyOnDiffLine ==
    \A k \in 1..Len(history) :
        ~IsDiffLine(k) => SyntaxAfter(k) = history[k].syntax

\* a grammar resolved by a diff header survives a commit line and a hunk
\* header and composites the line after them
C15_Witness ==
    \E i, j \in 1..Len(history) :
        /\ history[i].syntax # None
        /\ starts_with(Stripped(i), COMMIT_PREFIX)
        /\ history[j].syntax # None
        /\ starts_with(Stripped(j), HUNK_PREFIX)
        /\ i < j
        /\ did_emit_line
        /\ syntax # None

\* what strip_ansi_codes gives for each raw line, computed once
StrippedOf == [raw_line \in Lines |-> strip_ansi_codes(raw_line)]

\* the registry's grammar for the extension extracted from each line, or
\* None when there is no extension or no grammar for it, computed once
RegistryGrammarOf ==
    [raw_line \in Lines |->
        LET extension == get_file_extension_from_diff_line(StrippedOf[raw_line])
        IN  IF extension = None THEN None
            ELSE find_syntax_by_extension(Unwrap(extension))]

\* C16: after a "diff --" line the grammar is the registry's grammar for the
\* extension extracted from that line, or absent when there is no extension
\* or no grammar for it, whatever the grammar was before; so after a diff
\* header of an unrecognized type, hunk lines are written raw until the next
\* diff header, even if the header before resolved a grammar.
C16_DiffLineReResolvesGrammar ==
    /\ \A k \in 1..Len(history) :
           IsDiffLine(k) => SyntaxAfter(k) = RegistryGrammarOf[input[k]]
    /\ \A k \in 1..Len(stdout) : \A j \in 1..(k - 1) :
           ( /\ IsDiffLine(j)
             /\ SyntaxAfter(j) = None
             /\ \A i \in (j + 1)..(k - 1) : ~IsDiffLine(i) )
           => stdout[k] = input[k]

\* a recognized diff header, then an unrecognized one, then a hunk whose
\* added line is written raw
C16_Witness ==
    \E j \in 1..Len(history) :
        /\ IsDiffLine(j)
        /\ history[j].syntax # None
        /\ SyntaxAfter(j) = None
        /\ Len(stdout) = Len(history)
        /\ j + 2 = Len(history)
        /\ history[j + 2].state = "DiffHunk"
        /\ first_char(Stripped(j + 2)) = Some("+")
        /\ stdout[j + 2] = input[j + 2]

\* the raw line starts with an escape sequence
Colored(k) == Len(input[k]) > 0 /\ CharAt(input[k], 1) = ESC

\* C17: the prefixes, the marker, the padding and the highlighting are all
\* taken from the line with its escape sequences removed: a line that starts
\* with an escape sequence still makes the transition of the prefix its
\* stripped text starts with, and when composited it is tinted, unmarked and
\* padded by its stripped text.
C17_ClassifiesStrippedText ==
    \A k \in 1..Len(input) :
        Colored(k) =>
            LET line == StrippedOf[input[k]]
                fc == first_char(line)
            IN  /\ starts_with(line, DIFF_PREFIX) => StateAfter(k) = "DiffMeta"
                /\ starts_with(line, COMMIT_PREFIX) => StateAfter(k) = "Commit"
                /\ starts_with(line, HUNK_PREFIX) => StateAfter(k) = "DiffHunk"
                /\ ( /\ k <= Len(stdout)
                     /\ history[k].state = "DiffHunk"
                     /\ history[k].syntax # None
                     /\ PrefixMatches(line) = 0 ) =>
                       /\ fc = Some("+") => HasAt(stdout[k], 1, " " \o BgEscape(GREEN))
                       /\ fc = Some("-") => HasAt(stdout[k], 1, " " \o BgEscape(RED))
                       /\ (did_emit_line /\ k = Len(stdout)) =>
                              ConcatTexts(ranges) =
                                  padded(opt.width,
                                         IF fc \in {Some("+"), Some("-")}
                                         THEN SubSeq(line, 2, Len(line))
                                         ELSE line)

\* a colored '-' line composited in a hunk, then a colored diff header that
\* takes the state from DiffHunk to DiffMeta
C17_Witness ==
    \E j, k \in 1..Len(stdout) :
        /\ Colored(j)
        /\ Composited(j)
        /\ HasAt(stdout[j], 1, " " \o BgEscape(RED))
        /\ Colored(k)
        /\ history[k].state = "DiffHunk"
        /\ IsDiffLine(k)
        /\ StateAfter(k) = "DiffMeta"

Failed == result \notin {"Running", "Ok"}

\* C18: a failed read or write ends the run: the step that fails writes
\* nothing, and once delta has failed no step reads another input line or
\* writes another output line, so the line whose write failed is never
\* written later.
C18_FailureIsFatal ==
    [][ /\ Failed' => stdout' = stdout
        /\ Failed => (input' = input /\ stdout' = stdout /\ result' = result)
      ]_vars

\* a write failed after at least one line was written, and the process is
\* over with the failed line unwritten
C18_Witness ==
    /\ result \in WriteErrorKinds
    /\ pc = "exited"
    /\ Len(stdout) >= 1
    /\ Len(input) = Len(stdout) + 1

RECURSIVE RenderedSpans(_, _, _)
\* the spans from the i-th on, each as its background escape if there is a
\* tint, its foreground escape and its text
RenderedSpans(rs, bg, i) ==
    IF i > Len(rs) THEN ""
    ELSE (IF bg = None THEN "" ELSE BgEscape(Unwrap(bg)))
             \o FgEscape(rs[i].foreground) \o rs[i].text
             \o RenderedSpans(rs, bg, i + 1)

\* every composited line the model's input lines can give
CompositedOutputs ==
    UNION {{composite(StrippedOf[raw_line], rs, "") :
               rs \in highlight(highlighted_text(width, StrippedOf[raw_line]))} :
           raw_line \in Lines, width \in Widths}

\* the visible text of each of them, computed once
VisibleOf == [s \in CompositedOutputs |-> strip_ansi_codes(s)]

\* whether each of them holds a background escape, computed once
HasBackgroundEscape == [s \in CompositedOutputs |-> Contains(s, BG_INTRO)]

\* C19: the line just composited is its spans in order, each as an optional
\* background escape, a foreground escape and the span's text, after the
\* space written for a stripped marker and before the reset; there is a
\* background escape only if the line has a tint; the span texts joined are
\* the padded line, so the visible text is the padded line, after one space
\* if a marker was stripped.
C19_SpansRenderedInOrder ==
    did_emit_line =>
        LET k == Len(stdout)
            lead == IF Marked(k) THEN " " ELSE ""
            text == padded(opt.width, unmarked(Stripped(k)))
        IN  /\ stdout[k] =
                   lead \o RenderedSpans(ranges, background_color, 1) \o RESET
            /\ ConcatTexts(ranges) = text
            /\ background_color # None <=> Marked(k)
            /\ stdout[k] \in CompositedOutputs
            /\ HasBackgroundEscape[stdout[k]] <=> background_color # None
            /\ VisibleOf[stdout[k]] = lead \o text

\* a tinted line and an untinted line, each composited from several spans
C19_Witness ==
    /\ did_emit_line
    /\ Len(ranges) > 1
    /\ background_color = None
    /\ \E j \in 1..Len(stdout) : Composited(j) /\ Marked(j)

\* C20: the rendering buffer is empty whenever delta is about to read an
\* input line, whatever lines came before, so the line just composited is
\* made of its own input line alone, with nothing left of an earlier line.
C20_BufferEmptyBetweenLines ==
    /\ pc = "loop" => output = ""
    /\ did_emit_line =>
           stdout[Len(stdout)] =
               composite(Stripped(Len(stdout)), ranges, "")

\* delta is about to read a line after compositing two marked lines in a row
C20_Witness ==
    /\ pc = "loop"
    /\ did_emit_line
    /\ Len(stdout) >= 2
    /\ Composited(Len(stdout) - 1)
    /\ Marked(Len(stdout) - 1)
    /\ Marked(Len(stdout))

====
